---- MODULE Spec2Model ----
(***************************************************************************)
(* The IRENA PxWeb ingest of energy-data: fetch_and_save_table and run of  *)
(* src/_ingest/irenastat.py.  One process run fetches the pending tables   *)
(* in order; an exception ends the run, and a later run starts from the    *)
(* persisted checkpoint.                                                   *)
(*                                                                         *)
(* Data representation.                                                    *)
(*  - A variable code is a sequence of one-character strings, so that      *)
(*    code.lower() and the substring test "year" in ... are computed.      *)
(*  - Category keys and their texts are integers (key 2003, text 12003).   *)
(*  - A cell of a cube is named by its row-major position in the full cube *)
(*    (0 .. total_cells-1): a deterministic provider returns, for a cell,  *)
(*    a value that depends on the cell alone.  A value list is held        *)
(*    run-length encoded: <<lo, hi>> stands for the cells lo, lo+1, .., hi *)
(*    and a list is a sequence of maximal runs.  The encoding is           *)
(*    one-to-one, so two lists are equal iff their encodings are.          *)
(*  - None is <<>> and a present value x is <<x>>.                         *)
(***************************************************************************)
EXTENDS Integers, Sequences, FiniteSets, TLC

VARIABLES
    state,            \* the persisted checkpoint of job "irenastat": the list under "completed", as a set
    raw,              \* names save_raw_json has written a dataset for
    saved,            \* the dataset handed to save_raw_json by the table fetch in progress (None before)
    pc,               \* position of the process
    runs,             \* number of process runs started
    completed,        \* run(): the in-memory set
    pending,          \* run(): the tables still to fetch, in iteration order
    name,             \* run(): the table being fetched
    metadata,         \* fetch_and_save_table: the decoded metadata response
    total_cells,
    year_idx,         \* 0-based, as in the code
    years,
    year_code,
    year_labels,
    cells_per_year,
    years_per_chunk,
    i,                \* the chunk loop's index, 0-based
    all_values,
    base_response,
    count,            \* the value fetch_and_save_table returned
    error,            \* the exception that ended the run, None if none
    behaviour,        \* how the provider answers the data requests of the table in progress
    trace,            \* requests and delays of the table fetch in progress, in order
    replies,          \* the decoded data responses of the table fetch in progress, in order
    stamps,           \* observer: ages, in tenths of a second, of the requests of this run not older than the window
    jodi,             \* the JODI primary and secondary ingests: persisted states, files, process
    xform             \* the transform runs: datasets uploaded and published, process

vars == <<state, raw, saved, pc, runs, completed, pending, name, metadata,
          total_cells, year_idx, years, year_code, year_labels, cells_per_year,
          years_per_chunk, i, all_values, base_response, count, error,
          behaviour, trace, replies, stamps, jodi, xform>>

\* The variables of the IRENA ingest.
irena == <<state, raw, saved, pc, runs, completed, pending, name, metadata,
           total_cells, year_idx, years, year_code, year_labels, cells_per_year,
           years_per_chunk, i, all_values, base_response, count, error,
           behaviour, trace, replies, stamps>>

None == <<>>
Some(x) == <<x>>

Range(s) == {s[p] : p \in DOMAIN s}
Min(a, b) == IF a <= b THEN a ELSE b
Max(a, b) == IF a >= b THEN a ELSE b

RECURSIVE Product(_)
Product(s) == IF s = <<>> THEN 1 ELSE Head(s) * Product(Tail(s))

RECURSIVE Sum(_)
Sum(s) == IF s = <<>> THEN 0 ELSE Head(s) + Sum(Tail(s))

(***************************************************************************)
(* Program constants.                                                      *)
(***************************************************************************)
MAX_CELLS == 100000

TABLES == <<"electricity_by_country", "electricity_by_region", "renewable_share",
            "public_investments", "heat_generation">>

(***************************************************************************)
(* Bounds of the model.                                                    *)
(***************************************************************************)
MaxRuns == 2

(***************************************************************************)
(* str.lower() and the substring test.                                     *)
(***************************************************************************)
Upper == <<"A","B","C","D","E","F","G","H","I","J","K","L","M",
           "N","O","P","Q","R","S","T","U","V","W","X","Y","Z">>
Lowers == <<"a","b","c","d","e","f","g","h","i","j","k","l","m",
            "n","o","p","q","r","s","t","u","v","w","x","y","z">>

LowerChar(c) ==
    IF \E p \in DOMAIN Upper : Upper[p] = c
    THEN Lowers[CHOOSE p \in DOMAIN Upper : Upper[p] = c]
    ELSE c

Lower(s) == [p \in DOMAIN s |-> LowerChar(s[p])]

Contains(sub, s) ==
    \E k \in 0..(Len(s) - Len(sub)) : SubSeq(s, k + 1, k + Len(sub)) = sub

(***************************************************************************)
(* Run-length encoded value lists.                                         *)
(***************************************************************************)
RECURSIVE Norm(_)
Norm(s) ==
    IF s = <<>> THEN <<>>
    ELSE LET h == Head(s)
             rest == Norm(Tail(s))
         IN  IF h[2] < h[1] THEN rest
             ELSE IF rest # <<>> /\ h[2] + 1 = rest[1][1]
                  THEN << <<h[1], rest[1][2]>> >> \o Tail(rest)
                  ELSE <<h>> \o rest

\* list(a) + b, a.extend(b)
ValCat(a, b) == Norm(a \o b)

\* len(a)
ValLen(a) == Sum([p \in DOMAIN a |-> a[p][2] - a[p][1] + 1])

\* a without its last element
ValDropLast(a) ==
    IF a = <<>> THEN <<>>
    ELSE Norm(SubSeq(a, 1, Len(a) - 1) \o << <<a[Len(a)][1], a[Len(a)][2] - 1>> >>)

(***************************************************************************)
(* The provider's tables.  A table's metadata is built from a shape, a     *)
(* sequence of <<kind, cardinality>>:                                      *)
(*   "year"   code Year,  no time field                                    *)
(*   "fyear"  code fyEAR, no time field                                    *)
(*   "tid"    code Tid,   time true                                        *)
(*   "off"    code Per,   time false                                       *)
(*   "yea"    code Yea,   no time field                                    *)
(*   "plain"  code by position, no time field                              *)
(* Keys are distinct within a variable and valueTexts parallels values,    *)
(* as the provider's wire contract has them.                               *)
(***************************************************************************)
PlainCodes == << <<"R","e","g">>, <<"T","e","c">>, <<"I","n","d">>, <<"G","r","d">>,
                 <<"S","r","c">>, <<"U","s","e">>, <<"F","l","o">> >>

KindCode(kind, j) ==
    CASE kind = "year"  -> <<"Y","e","a","r">>
      [] kind = "fyear" -> <<"f","y","E","A","R">>
      [] kind = "tid"   -> <<"T","i","d">>
      [] kind = "off"   -> <<"P","e","r">>
      [] kind = "yea"   -> <<"Y","e","a">>
      [] OTHER          -> PlainCodes[j]

KeyText(k) == k + 10000

MkVar(kind, n, j) ==
    LET vals == [p \in 1..n |-> 1000 * j + p]
        base == [code |-> KindCode(kind, j),
                 values |-> vals,
                 valueTexts |-> [p \in 1..n |-> KeyText(vals[p])]]
    IN  IF kind \in {"tid", "off"}
        THEN [code |-> base.code, values |-> base.values,
              valueTexts |-> base.valueTexts, time |-> (kind = "tid")]
        ELSE base

MkMeta(shape) ==
    [variables |-> [j \in DOMAIN shape |-> MkVar(shape[j][1], shape[j][2], j)]]

P(n) == <<"plain", n>>

Shapes ==
    { << <<"year", 3>>, P(2) >>,                                    \* 6 cells
      << P(3), P(2) >>,                                             \* 6 cells, nothing to split on
      << P(0), <<"tid", 3>> >>,                                     \* 0 cells
      << <<"tid", 10>>, P(10), P(10), P(10), P(10) >>,              \* 100,000 cells
      << <<"tid", 10>>, P(10), P(10), P(10), P(10), P(5) >>,        \* 10 x 50,000
      << <<"year", 7>>, P(10), P(10), P(10), P(10), P(2) >>,        \* 7 x 20,000
      << <<"tid", 10>>, P(10), P(10), P(10), P(10), P(3) >>,        \* 10 x 30,000
      << <<"year", 10>>, P(10), P(10), P(10), P(5), P(5) >>,        \* 10 x 25,000
      << <<"fyear", 3>>, P(10), P(10), P(10), P(10), P(10) >>,      \* 3 x 100,000
      << <<"tid", 2>>, P(10), P(10), P(10), P(10), P(10), P(2) >>,  \* 2 x 200,000
      << <<"year", 1>>, P(10), P(10), P(10), P(10), P(10), P(2) >>, \* 1 x 200,000
      << <<"year", 4>>, <<"tid", 5>>, P(10), P(10), P(10), P(10) >>,
      << <<"tid", 5>>, <<"year", 4>>, P(10), P(10), P(10), P(10) >>,
      << <<"off", 4>>, <<"tid", 5>>, P(10), P(10), P(10), P(10) >>,
      << P(2), <<"tid", 10>>, P(10), P(10), P(10), P(10) >>,
      << P(1), <<"year", 10>>, P(10), P(10), P(10), P(10), P(2) >>,
      << P(3), <<"fyear", 2>>, P(10), P(10), P(10), P(10), P(10) >>,
      << P(10), P(10), P(10), P(10), P(10), P(2) >>,                \* nothing to split on
      << <<"off", 10>>, <<"yea", 10>>, P(10), P(10), P(10), P(2) >> }

Metadatas == {MkMeta(sh) : sh \in Shapes}

\* A decoded metadata body without the "variables" field.
NoVariables == [title |-> "x"]

(***************************************************************************)
(* The provider's answer to POST {query, response: json-stat2}.            *)
(***************************************************************************)
Codes(m) == [j \in DOMAIN m.variables |-> m.variables[j].code]
Cards(m) == [j \in DOMAIN m.variables |-> Len(m.variables[j].values)]

\* The keys a query selects of a variable: all of them unless the query filters it.
Selected(var, query) ==
    LET f == SelectSeq(query, LAMBDA q : q.code = var.code)
    IN  IF f = <<>> THEN var.values ELSE f[1].selection.values

PosOf(seq, k) == CHOOSE p \in DOMAIN seq : seq[p] = k

Category(var, keys) ==
    [category |->
        [index |-> [k \in Range(keys) |-> PosOf(keys, k) - 1],
         label |-> [k \in Range(keys) |-> var.valueTexts[PosOf(var.values, k)]]]]

VarOf(m, code) == m.variables[CHOOSE j \in DOMAIN m.variables : m.variables[j].code = code]

\* The cells of the selection, in row-major order over the dimensions in id
\* order.  The program filters at most one variable, by a contiguous slice.
CellsOf(m, query) ==
    LET n == Len(m.variables)
        cards == Cards(m)
        filtered == {j \in 1..n : Selected(m.variables[j], query) # m.variables[j].values}
    IN  IF filtered = {}
        THEN Norm(<< <<0, Product(cards) - 1>> >>)
        ELSE LET p == CHOOSE j \in filtered : TRUE
                 sel == Selected(m.variables[p], query)
                 a == PosOf(m.variables[p].values, sel[1])
                 b == a + Len(sel) - 1
                 outer == Product(SubSeq(cards, 1, p - 1))
                 inner == Product(SubSeq(cards, p + 1, n))
             IN  Norm([o \in 1..outer |->
                        <<((o - 1) * cards[p] + a - 1) * inner,
                          ((o - 1) * cards[p] + b) * inner - 1>>])

Faithful(m, query) ==
    [value |-> CellsOf(m, query),
     id |-> Codes(m),
     size |-> [j \in DOMAIN m.variables |-> Len(Selected(m.variables[j], query))],
     dimension |-> [c \in Range(Codes(m)) |->
                      Category(VarOf(m, c), Selected(VarOf(m, c), query))]]

\* The query that asks for the slice mirrored within its variable.
Mirror(m, query) ==
    [e \in DOMAIN query |->
        LET var == VarOf(m, query[e].code)
            n == Len(var.values)
            sel == query[e].selection.values
            a == PosOf(var.values, sel[1])
            b == a + Len(sel) - 1
        IN  [code |-> query[e].code,
             selection |-> [filter |-> "item",
                            values |-> SubSeq(var.values, n - b + 1, n - a + 1)]]]

Reverse(s) == [p \in DOMAIN s |-> s[Len(s) + 1 - p]]

Behaviours == {"faithful", "reversed", "short", "permuted", "scrambled", "novalue"}

\* What the provider sends under each behaviour:
\*   faithful   the selection asked for
\*   reversed   the slices of a chunk sequence in the opposite order
\*   short      one cell too few
\*   permuted   the dimensions listed in the opposite order
\*   scrambled  category index maps that count positions from the end
\*   novalue    a body without "value"
Respond(b, m, query) ==
    LET r == Faithful(m, query)
    IN  CASE b = "faithful" -> r
          [] b = "reversed" -> Faithful(m, Mirror(m, query))
          [] b = "short" -> [r EXCEPT !.value = ValDropLast(@)]
          [] b = "permuted" -> [r EXCEPT !.id = Reverse(@), !.size = Reverse(@)]
          [] b = "scrambled" ->
                [r EXCEPT !.dimension =
                    [c \in DOMAIN @ |->
                        [category |->
                            [index |-> [k \in DOMAIN @[c].category.index |->
                                          Cardinality(DOMAIN @[c].category.index) - 1
                                            - @[c].category.index[k]],
                             label |-> @[c].category.label]]]]
          [] OTHER -> [id |-> r.id, size |-> r.size, dimension |-> r.dimension]

(***************************************************************************)
(* The program's pure steps.                                               *)
(***************************************************************************)
\* calculate_total_cells
calculate_total_cells(m) ==
    Product([j \in DOMAIN m.variables |-> Len(m.variables[j].values)])

\* total_cells <= MAX_CELLS
WithinMaxCells_Strict(total) == total < MAX_CELLS

WithinMaxCells(total) == total <= MAX_CELLS

\* The division counts one key too many.
CellsPerYear_OneMore(total, ys) == total \div (Len(ys) + 1)

\* total_cells // len(years)
CellsPerYear(total, ys) == total \div Len(ys)

\* A variable that carries a "time" field counts, whatever the field says.
IsYearVar_KeyPresent(var) ==
    \/ "time" \in DOMAIN var
    \/ Contains(<<"y","e","a","r">>, Lower(var.code))

\* var.get("time", False) or "year" in var["code"].lower()
IsYearVar(var) ==
    \/ (IF "time" \in DOMAIN var THEN var.time ELSE FALSE)
    \/ Contains(<<"y","e","a","r">>, Lower(var.code))

\* The loop over enumerate(metadata["variables"]), from idx on: the index it
\* breaks at, None when it runs to the end.
RECURSIVE FindFrom(_, _)
FindFrom(variables, idx) ==
    IF idx >= Len(variables) THEN None
    ELSE IF IsYearVar(variables[idx + 1]) THEN Some(idx)
    ELSE FindFrom(variables, idx + 1)

\* The time-flagged variables are searched first, the codes only after them.
FindYearVar_TimeFirst(variables) ==
    LET flagged == {j \in DOMAIN variables :
                      IF "time" \in DOMAIN variables[j] THEN variables[j].time ELSE FALSE}
        coded == {j \in DOMAIN variables :
                      Contains(<<"y","e","a","r">>, Lower(variables[j].code))}
        least(S) == CHOOSE j \in S : \A k \in S : j <= k
    IN  IF flagged # {} THEN Some(least(flagged) - 1)
        ELSE IF coded # {} THEN Some(least(coded) - 1)
        ELSE None

FindYearVar(variables) == FindFrom(variables, 0)

\* year_var.get("valueTexts", years)
YearLabels(var) ==
    IF "valueTexts" \in DOMAIN var THEN var.valueTexts ELSE var.values

\* The quotient is rounded up.
YearsPerChunk_RoundUp(cpy) == Max(1, (MAX_CELLS + cpy - 1) \div cpy)

\* The quota is taken as exclusive.
YearsPerChunk_Exclusive(cpy) == Max(1, (MAX_CELLS - 1) \div cpy)

\* The quotient alone, with no floor at one key.
YearsPerChunk_NoFloor(cpy) == MAX_CELLS \div cpy

\* max(1, MAX_CELLS // cells_per_year)
YearsPerChunk(cpy) == Max(1, MAX_CELLS \div cpy)

\* The slice runs one key too far.
ChunkYears_Overlap(ys, at, per) == SubSeq(ys, at + 1, Min(at + per + 1, Len(ys)))

\* years[i:i + years_per_chunk]
ChunkYears(ys, at, per) == SubSeq(ys, at + 1, Min(at + per, Len(ys)))

SingleQuery == <<>>

\* A chunk request that filters nothing.
ChunkQuery_Unfiltered(code, chunk_years) == <<>>

ChunkQuery(code, chunk_years) ==
    << [code |-> code, selection |-> [filter |-> "item", values |-> chunk_years]] >>

\* The runs of a value list put in the order of the cells they hold.
RECURSIVE InsertRun(_, _)
InsertRun(r, s) ==
    IF s = <<>> THEN <<r>>
    ELSE IF r[1] <= Head(s)[1] THEN <<r>> \o s
    ELSE <<Head(s)>> \o InsertRun(r, Tail(s))

RECURSIVE SortRuns(_)
SortRuns(s) == IF s = <<>> THEN <<>> ELSE InsertRun(Head(s), SortRuns(Tail(s)))

\* A stride-aware fold: the values of a later response are interleaved at the
\* places their cells have in the full cube.
FoldValues_Interleave(base, acc, data) ==
    IF base = None THEN data.value ELSE Norm(SortRuns(acc \o data.value))

\* The values of a later response replace the accumulated ones.
FoldValues_Replace(base, acc, data) == data.value

\* The first response becomes the base and its values are copied, the values
\* of a later one are appended.
FoldValues(base, acc, data) ==
    IF base = None THEN data.value ELSE ValCat(acc, data.value)

\* Positions counted from 1.
IndexDict_FromOne(ys) ==
    [k \in Range(ys) |-> CHOOSE p \in DOMAIN ys : ys[p] = k]

\* {y: i for i, y in enumerate(years)}: a repeated key keeps its last position
IndexDict(ys) ==
    [k \in Range(ys) |->
        (CHOOSE p \in DOMAIN ys : ys[p] = k /\ \A q \in DOMAIN ys : q > p => ys[q] # k) - 1]

\* {y: label for y, label in zip(years, year_labels)}
LabelDict(ys, labels) ==
    LET n == Min(Len(ys), Len(labels))
    IN  [k \in {ys[p] : p \in 1..n} |->
            labels[CHOOSE p \in 1..n : ys[p] = k /\ \A q \in 1..n : q > p => ys[q] # k]]

\* The size entry of the split variable is left as the first chunk had it.
MergeResponse_KeepSize(base, values, idx, ys, labels) ==
    LET dim == base.id[idx + 1]
    IN  [base EXCEPT !.value = values,
                     !.dimension[dim].category.index = IndexDict(ys),
                     !.dimension[dim].category.label = LabelDict(ys, labels)]

\* The label map of the split variable is left as the first chunk had it.
MergeResponse_KeepLabels(base, values, idx, ys, labels) ==
    LET dim == base.id[idx + 1]
    IN  [base EXCEPT !.value = values,
                     !.size[idx + 1] = Len(ys),
                     !.dimension[dim].category.index = IndexDict(ys)]

\* The statements after the chunk loop, up to the save.
MergeResponse(base, values, idx, ys, labels) ==
    LET dim == base.id[idx + 1]
    IN  [base EXCEPT !.value = values,
                     !.size[idx + 1] = Len(ys),
                     !.dimension[dim].category.index = IndexDict(ys),
                     !.dimension[dim].category.label = LabelDict(ys, labels)]

\* len(data.get("value", []))
CountOf(data) == IF "value" \in DOMAIN data THEN ValLen(data.value) ELSE 0

Get == [op |-> "GET"]
Post(query) == [op |-> "POST", query |-> query]
Sleep == [op |-> "SLEEP"]

(***************************************************************************)
(* The JODI ingests: _ingest/jodi_oil.py and _ingest/jodi_oil_secondary.py *)
(* (nodes/ingest.py holds the same two loops), run one after the other by  *)
(* one process.                                                            *)
(***************************************************************************)
START_YEAR == 2002

END_YEAR == 2025

\* str(y), as the sequence of its decimal digits
RECURSIVE Str(_)
Str(y) == IF y < 10 THEN <<y>> ELSE Append(Str(y \div 10), y % 10)

\* [str(y) for y in range(START_YEAR, END_YEAR + 1)]
JodiYears == [k \in 1..(END_YEAR + 1 - START_YEAR) |-> Str(START_YEAR + k - 1)]

\* Both ingests keep their completed years under one key.
JodiKey_Shared(job) == "jodi_oil"

\* load_state(...) / save_state(...): the key of each ingest
JodiKey(job) == IF job = "primary" THEN "jodi_oil" ELSE "jodi_oil_secondary"

\* f"oil_{year}" / f"oil_secondary_{year}"
JodiFile(job, year) == <<IF job = "primary" THEN "oil" ELSE "oil_secondary", year>>

JodiKeys == {"jodi_oil", "jodi_oil_secondary"}

JodiBoot ==
    [store |-> [k \in JodiKeys |-> {}],
     files |-> {},
     pc |-> "off",
     job |-> "",
     completed |-> {},
     pending |-> <<>>,
     year |-> <<>>,
     requested |-> <<>>,
     runs |-> 0]

(***************************************************************************)
(* The transforms: transforms/global_electricity, transforms/india and     *)
(* transforms/prices (main.py of each), and the same three loops in        *)
(* nodes/transforms.py.  A process runs the three of one implementation,   *)
(* one after the other.                                                    *)
(***************************************************************************)
\* DATASETS of the three transforms, in configuration order and in the order
\* the transforms are run.
TransformOrder ==
    <<"ember_electricity_yearly", "ember_electricity_monthly",
      "ember_electricity_europe_monthly",
      "ember_electricity_india_yearly", "ember_electricity_india_monthly",
      "ember_electricity_prices_daily", "ember_electricity_prices_monthly">>

Implementations == {"transforms", "nodes"}

TransformBoot ==
    [impl |-> "",
     pc |-> "off",
     queue |-> <<>>,
     dataset |-> "",
     log |-> <<>>,
     done |-> <<>>,
     uploaded |-> {},
     published |-> {},
     runs |-> 0]

(***************************************************************************)
(* The request clock.  time.sleep(1.1) is the only passage of time that is *)
(* counted: a request, and every other statement, takes no time, which is  *)
(* the worst case for the rate of requests.  stamps holds the age of each  *)
(* request of the run that is at most one window old, oldest first.        *)
(***************************************************************************)
SleepTenths == 11

WindowTenths == 100

MaxPerWindow == 10

Unobserved == <<-1>>

\* time.sleep(1.1): every request is 1.1 seconds older, those out of the window are dropped.
Aged(s) == SelectSeq([k \in DOMAIN s |-> s[k] + SleepTenths], LAMBDA a : a <= WindowTenths)

RECURSIVE Observe(_, _)
Observe(s, events) ==
    IF events = <<>> THEN s
    ELSE Observe(IF Head(events).op = "SLEEP" THEN Aged(s) ELSE Append(s, 0), Tail(events))

\* What the step adds to the trace of the fetch.
NewEvents ==
    IF Len(trace') > Len(trace) THEN SubSeq(trace', Len(trace) + 1, Len(trace')) ELSE <<>>

\* The clock follows the requests and sleeps of the step; a new process starts a new clock.
Timed ==
    stamps' = IF stamps = Unobserved THEN Unobserved
              ELSE IF runs' # runs THEN <<>>
              ELSE Observe(stamps, NewEvents)

(***************************************************************************)
(* The process.                                                            *)
(***************************************************************************)
fetchLocals == <<metadata, total_cells, year_idx, years, year_code, year_labels,
                 cells_per_year, years_per_chunk, i, all_values, base_response>>

ClearFetch ==
    /\ metadata' = None
    /\ total_cells' = 0
    /\ year_idx' = None
    /\ years' = <<>>
    /\ year_code' = <<>>
    /\ year_labels' = <<>>
    /\ cells_per_year' = 0
    /\ years_per_chunk' = 0
    /\ i' = 0
    /\ all_values' = <<>>
    /\ base_response' = None

Boot ==
    /\ state = {}
    /\ raw = {}
    /\ saved = None
    /\ pc = "off"
    /\ runs = 0
    /\ completed = {}
    /\ pending = <<>>
    /\ name = ""
    /\ metadata = None
    /\ total_cells = 0
    /\ year_idx = None
    /\ years = <<>>
    /\ year_code = <<>>
    /\ year_labels = <<>>
    /\ cells_per_year = 0
    /\ years_per_chunk = 0
    /\ i = 0
    /\ all_values = <<>>
    /\ base_response = None
    /\ count = 0
    /\ error = None
    /\ behaviour = "faithful"
    /\ trace = <<>>
    /\ replies = <<>>
    /\ jodi = JodiBoot
    /\ xform = TransformBoot

\* The state before the first run; the request clock is not observed.
Init == Boot /\ stamps = Unobserved

\* The same state with the request clock observed.
InitPace == Boot /\ stamps = <<>>

\* An exception leaves fetch_and_save_table and run: nothing catches it.
Raise(e) ==
    /\ error' = Some(e)
    /\ pc' = "failed"

\* run() that takes every table of TABLES, whatever the loaded state holds.
Run_NoFilter ==
    /\ pc \in {"off", "exit", "failed", "killed"}
    /\ runs < MaxRuns
    /\ runs' = runs + 1
    /\ completed' = state
    /\ pending' = TABLES
    /\ pc' = "loop"
    /\ name' = ""
    /\ count' = 0
    /\ error' = None
    /\ saved' = None
    /\ behaviour' = "faithful"
    /\ trace' = <<>>
    /\ replies' = <<>>
    /\ ClearFetch
    /\ UNCHANGED <<state, raw>>
    /\ Timed
    /\ UNCHANGED <<jodi, xform>>

\* run() is entered by a new process: load_state, completed, pending, and the
\* early return when nothing is pending.
Run ==
    /\ pc \in {"off", "exit", "failed", "killed"}
    /\ runs < MaxRuns
    /\ runs' = runs + 1
    /\ completed' = state
    /\ pending' = SelectSeq(TABLES, LAMBDA t : t \notin state)
    /\ pc' = IF SelectSeq(TABLES, LAMBDA t : t \notin state) = <<>> THEN "exit" ELSE "loop"
    /\ name' = ""
    /\ count' = 0
    /\ error' = None
    /\ saved' = None
    /\ behaviour' = "faithful"
    /\ trace' = <<>>
    /\ replies' = <<>>
    /\ ClearFetch
    /\ UNCHANGED <<state, raw>>
    /\ Timed
    /\ UNCHANGED <<jodi, xform>>

\* for i, (name, path) in enumerate(pending, 1): the next table, and the call
\* of fetch_and_save_table.
NextTable ==
    /\ pc = "loop"
    /\ pending # <<>>
    /\ name' = Head(pending)
    /\ pending' = Tail(pending)
    /\ pc' = "get"
    /\ saved' = None
    /\ behaviour' = "faithful"
    /\ trace' = <<>>
    /\ replies' = <<>>
    /\ ClearFetch
    /\ UNCHANGED <<state, raw, runs, completed, count, error>>
    /\ Timed
    /\ UNCHANGED <<jodi, xform>>

\* The loop is exhausted: run() returns.
Finish ==
    /\ pc = "loop"
    /\ pending = <<>>
    /\ pc' = "exit"
    /\ UNCHANGED <<state, raw, saved, runs, completed, pending, name, count, error,
                   behaviour, trace, replies>>
    /\ UNCHANGED fetchLocals
    /\ Timed
    /\ UNCHANGED <<jodi, xform>>

\* get_table_metadata answers, then time.sleep(1.1).
GetMetadata ==
    /\ pc = "get"
    /\ \E m \in Metadatas \cup {NoVariables}, b \in Behaviours :
          /\ (m = NoVariables => b = "faithful")
          /\ metadata' = Some(m)
          /\ behaviour' = b
    /\ trace' = trace \o <<Get, Sleep>>
    /\ pc' = "cells"
    /\ UNCHANGED <<state, raw, saved, runs, completed, pending, name, count, error, replies>>
    /\ UNCHANGED <<total_cells, year_idx, years, year_code, year_labels, cells_per_year,
                   years_per_chunk, i, all_values, base_response>>
    /\ Timed
    /\ UNCHANGED <<jodi, xform>>

\* A failed metadata request is issued once more before the failure is raised.
GetMetadataFails_Retry ==
    /\ pc = "get"
    /\ trace' = trace \o <<Get, Sleep, Get>>
    /\ Raise("MetadataRequest")
    /\ UNCHANGED <<state, raw, saved, runs, completed, pending, name, count, behaviour, replies>>
    /\ UNCHANGED fetchLocals
    /\ Timed
    /\ UNCHANGED <<jodi, xform>>

\* get() or raise_for_status() or json() raises in get_table_metadata.
GetMetadataFails ==
    /\ pc = "get"
    /\ trace' = Append(trace, Get)
    /\ Raise("MetadataRequest")
    /\ UNCHANGED <<state, raw, saved, runs, completed, pending, name, count, behaviour, replies>>
    /\ UNCHANGED fetchLocals
    /\ Timed
    /\ UNCHANGED <<jodi, xform>>

\* calculate_total_cells, the test against MAX_CELLS, and on the chunked path
\* the search of the split variable and the chunk size.
Plan ==
    /\ pc = "cells"
    /\ LET m == metadata[1] IN
       IF "variables" \notin DOMAIN m
       THEN /\ Raise("KeyError")
            /\ UNCHANGED <<total_cells, year_idx, years, year_code, year_labels,
                           cells_per_year, years_per_chunk>>
       ELSE LET total == calculate_total_cells(m)
                found == FindYearVar(m.variables)
            IN  /\ total_cells' = total
                /\ IF WithinMaxCells(total)
                   THEN /\ pc' = "single"
                        /\ UNCHANGED <<error, year_idx, years, year_code, year_labels,
                                       cells_per_year, years_per_chunk>>
                   ELSE IF found = None
                   THEN /\ year_idx' = None
                        /\ Raise("ValueError")
                        /\ UNCHANGED <<years, year_code, year_labels, cells_per_year,
                                       years_per_chunk>>
                   ELSE LET year_var == m.variables[found[1] + 1] IN
                        /\ year_idx' = found
                        /\ years' = year_var.values
                        /\ year_code' = year_var.code
                        /\ year_labels' = YearLabels(year_var)
                        /\ cells_per_year' = CellsPerYear(total, year_var.values)
                        /\ years_per_chunk' = YearsPerChunk(CellsPerYear(total, year_var.values))
                        /\ pc' = "chunk"
                        /\ UNCHANGED error
    /\ UNCHANGED <<state, raw, saved, runs, completed, pending, name, metadata, count,
                   behaviour, trace, replies, i, all_values, base_response>>
    /\ Timed
    /\ UNCHANGED <<jodi, xform>>

\* The single request returns without the sleep after it.
SinglePost_NoSleep ==
    /\ pc = "single"
    /\ LET data == Respond(behaviour, metadata[1], SingleQuery) IN
          /\ replies' = Append(replies, data)
          /\ saved' = Some(data)
          /\ count' = CountOf(data)
    /\ raw' = raw \cup {name}
    /\ trace' = Append(trace, Post(SingleQuery))
    /\ pc' = "mark"
    /\ UNCHANGED <<state, runs, completed, pending, name, error, behaviour>>
    /\ UNCHANGED fetchLocals
    /\ Timed
    /\ UNCHANGED <<jodi, xform>>

\* total_cells <= MAX_CELLS: the one request with an empty query, the save,
\* time.sleep(1.1) and the return.
SinglePost ==
    /\ pc = "single"
    /\ LET data == Respond(behaviour, metadata[1], SingleQuery) IN
          /\ replies' = Append(replies, data)
          /\ saved' = Some(data)
          /\ count' = CountOf(data)
    /\ raw' = raw \cup {name}
    /\ trace' = trace \o <<Post(SingleQuery), Sleep>>
    /\ pc' = "mark"
    /\ UNCHANGED <<state, runs, completed, pending, name, error, behaviour>>
    /\ UNCHANGED fetchLocals
    /\ Timed
    /\ UNCHANGED <<jodi, xform>>

\* post() or raise_for_status() or json() raises on the single request.
SinglePostFails ==
    /\ pc = "single"
    /\ trace' = Append(trace, Post(SingleQuery))
    /\ Raise("DataRequest")
    /\ UNCHANGED <<state, raw, saved, runs, completed, pending, name, count, behaviour, replies>>
    /\ UNCHANGED fetchLocals
    /\ Timed
    /\ UNCHANGED <<jodi, xform>>

\* The loop index advances by one key per pass, whatever the chunk size.
ChunkPost_StepOne ==
    /\ pc = "chunk"
    /\ i < Len(years)
    /\ LET query == ChunkQuery(year_code, ChunkYears(years, i, years_per_chunk))
           data == Respond(behaviour, metadata[1], query)
       IN  /\ replies' = Append(replies, data)
           /\ IF "value" \notin DOMAIN data
              THEN /\ trace' = Append(trace, Post(query))
                   /\ Raise("KeyError")
                   /\ UNCHANGED <<base_response, all_values, i>>
              ELSE /\ trace' = trace \o <<Post(query), Sleep>>
                   /\ base_response' = IF base_response = None THEN Some(data) ELSE base_response
                   /\ all_values' = FoldValues(base_response, all_values, data)
                   /\ i' = i + 1
                   /\ UNCHANGED <<pc, error>>
    /\ UNCHANGED <<state, raw, saved, runs, completed, pending, name, count, behaviour,
                   metadata, total_cells, year_idx, years, year_code, year_labels,
                   cells_per_year, years_per_chunk>>
    /\ Timed
    /\ UNCHANGED <<jodi, xform>>

\* One pass of the chunk loop: the request for years[i:i + years_per_chunk],
\* the fold of its values, time.sleep(1.1).
ChunkPost ==
    /\ pc = "chunk"
    /\ i < Len(years)
    /\ LET query == ChunkQuery(year_code, ChunkYears(years, i, years_per_chunk))
           data == Respond(behaviour, metadata[1], query)
       IN  /\ replies' = Append(replies, data)
           /\ IF "value" \notin DOMAIN data
              THEN /\ trace' = Append(trace, Post(query))
                   /\ Raise("KeyError")
                   /\ UNCHANGED <<base_response, all_values, i>>
              ELSE /\ trace' = trace \o <<Post(query), Sleep>>
                   /\ base_response' = IF base_response = None THEN Some(data) ELSE base_response
                   /\ all_values' = FoldValues(base_response, all_values, data)
                   /\ i' = i + years_per_chunk
                   /\ UNCHANGED <<pc, error>>
    /\ UNCHANGED <<state, raw, saved, runs, completed, pending, name, count, behaviour,
                   metadata, total_cells, year_idx, years, year_code, year_labels,
                   cells_per_year, years_per_chunk>>
    /\ Timed
    /\ UNCHANGED <<jodi, xform>>

\* A failed chunk request saves what the earlier chunks gave before it raises.
ChunkPostFails_SavePartial ==
    /\ pc = "chunk"
    /\ i < Len(years)
    /\ trace' = Append(trace, Post(ChunkQuery(year_code, ChunkYears(years, i, years_per_chunk))))
    /\ saved' = base_response
    /\ raw' = raw \cup {name}
    /\ Raise("DataRequest")
    /\ UNCHANGED <<state, runs, completed, pending, name, count, behaviour, replies>>
    /\ UNCHANGED fetchLocals
    /\ Timed
    /\ UNCHANGED <<jodi, xform>>

\* post() or raise_for_status() or json() raises on a chunk request.
ChunkPostFails ==
    /\ pc = "chunk"
    /\ i < Len(years)
    /\ trace' = Append(trace, Post(ChunkQuery(year_code, ChunkYears(years, i, years_per_chunk))))
    /\ Raise("DataRequest")
    /\ UNCHANGED <<state, raw, saved, runs, completed, pending, name, count, behaviour, replies>>
    /\ UNCHANGED fetchLocals
    /\ Timed
    /\ UNCHANGED <<jodi, xform>>

\* The chunk loop is exhausted and the fetch returns without saving a dataset.
Merge_NoSave ==
    /\ pc = "chunk"
    /\ i >= Len(years)
    /\ count' = ValLen(all_values)
    /\ pc' = "mark"
    /\ UNCHANGED <<state, raw, saved, runs, completed, pending, name, error, behaviour,
                   trace, replies>>
    /\ UNCHANGED fetchLocals
    /\ Timed
    /\ UNCHANGED <<jodi, xform>>

\* The chunk loop is exhausted: the base response is completed, saved, and
\* len(all_values) returned.
Merge ==
    /\ pc = "chunk"
    /\ i >= Len(years)
    /\ saved' = Some(MergeResponse(base_response[1], all_values, year_idx[1], years, year_labels))
    /\ raw' = raw \cup {name}
    /\ count' = ValLen(all_values)
    /\ pc' = "mark"
    /\ UNCHANGED <<state, runs, completed, pending, name, error, behaviour, trace, replies>>
    /\ UNCHANGED fetchLocals
    /\ Timed
    /\ UNCHANGED <<jodi, xform>>

\* The state written holds the table just fetched and nothing else.
MarkDone_OnlyName ==
    /\ pc = "mark"
    /\ completed' = {name}
    /\ state' = {name}
    /\ pc' = "loop"
    /\ UNCHANGED <<raw, saved, runs, pending, name, count, error, behaviour, trace, replies>>
    /\ UNCHANGED fetchLocals
    /\ Timed
    /\ UNCHANGED <<jodi, xform>>

\* The set is persisted once, when the loop is over, not per table.
MarkDone_Batched ==
    /\ pc = "mark"
    /\ completed' = completed \cup {name}
    /\ state' = IF pending = <<>> THEN completed \cup {name} ELSE state
    /\ pc' = "loop"
    /\ UNCHANGED <<raw, saved, runs, pending, name, count, error, behaviour, trace, replies>>
    /\ UNCHANGED fetchLocals
    /\ Timed
    /\ UNCHANGED <<jodi, xform>>

\* completed.add(name); save_state("irenastat", {"completed": list(completed)})
MarkDone ==
    /\ pc = "mark"
    /\ completed' = completed \cup {name}
    /\ state' = completed \cup {name}
    /\ pc' = "loop"
    /\ UNCHANGED <<raw, saved, runs, pending, name, count, error, behaviour, trace, replies>>
    /\ UNCHANGED fetchLocals
    /\ Timed
    /\ UNCHANGED <<jodi, xform>>

\* The process is killed between two steps of a run: what it held in memory
\* is gone, what it persisted stays.
Crash ==
    /\ pc \in {"loop", "get", "cells", "single", "chunk", "mark"}
    /\ pc' = "killed"
    /\ completed' = {}
    /\ pending' = <<>>
    /\ name' = ""
    /\ count' = 0
    /\ error' = None
    /\ saved' = None
    /\ behaviour' = "faithful"
    /\ trace' = <<>>
    /\ replies' = <<>>
    /\ ClearFetch
    /\ UNCHANGED <<state, raw, runs>>
    /\ Timed
    /\ UNCHANGED <<jodi, xform>>

Next ==
    \/ Run
    \/ NextTable
    \/ Finish
    \/ GetMetadata
    \/ GetMetadataFails
    \/ Plan
    \/ SinglePost
    \/ SinglePostFails
    \/ ChunkPost
    \/ ChunkPostFails
    \/ Merge
    \/ MarkDone
    \/ Crash

Spec == Init /\ [][Next]_vars

\* The same program with the request clock observed.
SpecPace == InitPace /\ [][Next]_vars

(***************************************************************************)
(* The JODI process: the primary ingest's run(), then the secondary's.     *)
(***************************************************************************)
MaxJodiRuns == 2

\* state = load_state(key); completed = set(state.get("completed", []));
\* pending = [y for y in years if y not in completed]
JodiLoad(j, job) ==
    [j EXCEPT !.job = job,
              !.completed = j.store[JodiKey(job)],
              !.pending = SelectSeq(JodiYears, LAMBDA y : y \notin j.store[JodiKey(job)]),
              !.year = <<>>,
              !.pc = "loop"]

\* A new process: the primary ingest's run() is entered.
JodiStart ==
    /\ jodi.pc \in {"off", "exit", "failed"}
    /\ jodi.runs < MaxJodiRuns
    /\ jodi' = [JodiLoad(jodi, "primary") EXCEPT !.runs = jodi.runs + 1, !.requested = <<>>]
    /\ UNCHANGED <<irena, xform>>

\* get(url) answers and raise_for_status() passes.
JodiGet ==
    /\ jodi.pc = "loop"
    /\ jodi.pending # <<>>
    /\ jodi' = [jodi EXCEPT !.year = Head(jodi.pending),
                            !.requested = Append(jodi.requested, <<jodi.job, Head(jodi.pending)>>),
                            !.pc = "got"]
    /\ UNCHANGED <<irena, xform>>

\* get(url) or raise_for_status() raises: nothing catches it.
JodiGetFails ==
    /\ jodi.pc = "loop"
    /\ jodi.pending # <<>>
    /\ jodi' = [jodi EXCEPT !.year = Head(jodi.pending),
                            !.requested = Append(jodi.requested, <<jodi.job, Head(jodi.pending)>>),
                            !.pc = "failed"]
    /\ UNCHANGED <<irena, xform>>

\* save_raw_file(response.text, f"oil_{year}", extension="csv")
JodiSave ==
    /\ jodi.pc = "got"
    /\ jodi' = [jodi EXCEPT !.files = jodi.files \cup {JodiFile(jodi.job, jodi.year)},
                            !.pc = "saved"]
    /\ UNCHANGED <<irena, xform>>

\* completed.add(year); save_state(key, {"completed": list(completed)})
JodiMark ==
    /\ jodi.pc = "saved"
    /\ jodi' = [jodi EXCEPT !.completed = jodi.completed \cup {jodi.year},
                            !.store[JodiKey(jodi.job)] = jodi.completed \cup {jodi.year},
                            !.pending = Tail(jodi.pending),
                            !.pc = "loop"]
    /\ UNCHANGED <<irena, xform>>

\* Nothing is (or nothing is left) pending: run() returns; after the primary
\* ingest the secondary's run() is entered.
JodiReturn ==
    /\ jodi.pc = "loop"
    /\ jodi.pending = <<>>
    /\ jodi' = IF jodi.job = "primary" THEN JodiLoad(jodi, "secondary")
               ELSE [jodi EXCEPT !.pc = "exit"]
    /\ UNCHANGED <<irena, xform>>

NextJodi ==
    \/ JodiStart
    \/ JodiGet
    \/ JodiGetFails
    \/ JodiSave
    \/ JodiMark
    \/ JodiReturn

SpecJodi == Init /\ [][NextJodi]_vars

(***************************************************************************)
(* The transform process.                                                  *)
(***************************************************************************)
MaxTransformRuns == 2

\* A new process enters the run() functions of one implementation.
TransformStart ==
    /\ xform.pc \in {"off", "exit", "failed"}
    /\ xform.runs < MaxTransformRuns
    /\ \E impl \in Implementations :
          xform' = [xform EXCEPT !.impl = impl,
                                 !.pc = "next",
                                 !.queue = TransformOrder,
                                 !.dataset = "",
                                 !.log = <<>>,
                                 !.done = <<>>,
                                 !.runs = xform.runs + 1]
    /\ UNCHANGED <<irena, jodi>>

\* transform(...) and test(table, ...) return.
TransformValidate ==
    /\ xform.pc = "next"
    /\ xform.queue # <<>>
    /\ xform' = [xform EXCEPT !.dataset = Head(xform.queue),
                              !.log = Append(xform.log, <<"validate", Head(xform.queue)>>),
                              !.pc = "validated"]
    /\ UNCHANGED <<irena, jodi>>

\* test(table, ...) raises: nothing catches it.
TransformValidateFails ==
    /\ xform.pc = "next"
    /\ xform.queue # <<>>
    /\ xform' = [xform EXCEPT !.dataset = Head(xform.queue),
                              !.log = Append(xform.log, <<"validate", Head(xform.queue)>>),
                              !.pc = "failed"]
    /\ UNCHANGED <<irena, jodi>>

\* upload_data(table, dataset_id)
TransformUpload ==
    /\ xform.pc = "validated"
    /\ xform' = [xform EXCEPT !.uploaded = xform.uploaded \cup {xform.dataset},
                              !.log = Append(xform.log, <<"upload", xform.dataset>>),
                              !.pc = "uploaded"]
    /\ UNCHANGED <<irena, jodi>>

\* transforms/*/main.py: publish(dataset_id, {...}), and the next pass of the loop.
TransformPublish ==
    /\ xform.pc = "uploaded"
    /\ xform.impl = "transforms"
    /\ xform' = [xform EXCEPT !.published = xform.published \cup {xform.dataset},
                              !.log = Append(xform.log, <<"publish", xform.dataset>>),
                              !.done = Append(xform.done, xform.dataset),
                              !.queue = Tail(xform.queue),
                              !.pc = "next"]
    /\ UNCHANGED <<irena, jodi>>

\* nodes/transforms.py: col_desc is built and the pass ends; there is no publish.
TransformNoPublish ==
    /\ xform.pc = "uploaded"
    /\ xform.impl = "nodes"
    /\ xform' = [xform EXCEPT !.done = Append(xform.done, xform.dataset),
                              !.queue = Tail(xform.queue),
                              !.pc = "next"]
    /\ UNCHANGED <<irena, jodi>>

\* The last loop is exhausted.
TransformReturn ==
    /\ xform.pc = "next"
    /\ xform.queue = <<>>
    /\ xform' = [xform EXCEPT !.pc = "exit"]
    /\ UNCHANGED <<irena, jodi>>

NextTransform ==
    \/ TransformStart
    \/ TransformValidate
    \/ TransformValidateFails
    \/ TransformUpload
    \/ TransformPublish
    \/ TransformNoPublish
    \/ TransformReturn

SpecTransform == Init /\ [][NextTransform]_vars

(***************************************************************************)
(* Vocabulary of the properties.                                           *)
(***************************************************************************)
\* The table fetch in progress has decoded a metadata body with variables.
Known == metadata # None /\ "variables" \in DOMAIN metadata[1]

Cells(m) == Product(Cards(m))

\* The fetch has left the planning step.
Planned == Known /\ pc # "cells"

\* The fetch returned: its dataset is saved.
Returned == Planned /\ pc \in {"mark", "loop"}

TookChunkedPath == Planned /\ year_idx # None

Posts == SelectSeq(trace, LAMBDA e : e.op = "POST")
Gets == SelectSeq(trace, LAMBDA e : e.op = "GET")

\* The keys the k-th data request asks for.
Slice(k) == Posts[k].query[1].selection.values

RECURSIVE Flatten(_)
Flatten(ss) == IF ss = <<>> THEN <<>> ELSE Head(ss) \o Flatten(Tail(ss))

Requested == Flatten([k \in DOMAIN Posts |-> Slice(k)])

TimeFlagged(var) == "time" \in DOMAIN var /\ var.time = TRUE
YearCoded(var) ==
    \E k \in 1..Len(var.code) :
        /\ k + 3 <= Len(var.code)
        /\ var.code[k] \in {"y", "Y"}
        /\ var.code[k + 1] \in {"e", "E"}
        /\ var.code[k + 2] \in {"a", "A"}
        /\ var.code[k + 3] \in {"r", "R"}

(***************************************************************************)
(* C1.  A table of at most 100,000 cells is fetched unchunked: one         *)
(* metadata GET, then at most one data POST, whose query is empty; no      *)
(* split variable is looked up; and once the fetch has returned the        *)
(* requests were GET, POST [] and the dataset saved is the response as it  *)
(* came.                                                                   *)
(***************************************************************************)
C1_UnchunkedPath ==
    (Planned /\ Cells(metadata[1]) <= 100000) =>
        /\ pc # "chunk"
        /\ year_idx = None
        /\ error # Some("ValueError")
        /\ Gets = <<Get>> /\ trace[1] = Get
        /\ Len(Posts) <= 1
        /\ \A k \in DOMAIN Posts : Posts[k].query = <<>>
        /\ Returned =>
              /\ trace = <<Get, Sleep, Post(<<>>), Sleep>>
              /\ Len(replies) = 1
              /\ saved = Some(replies[1])
              /\ name \in raw

C1_Witness ==
    /\ Returned
    /\ Cells(metadata[1]) = 100000
    /\ Len(metadata[1].variables) = 5
    /\ saved = Some(replies[1])

C3_SlicesPartition ==
    TookChunkedPath =>
        /\ \A k \in DOMAIN Posts : Slice(k) # <<>>
        /\ Len(Requested) <= Len(years)
        /\ Requested = SubSeq(years, 1, Len(Requested))
        /\ pc = "chunk" => Len(Requested) = Min(i, Len(years))
        /\ Returned =>
              /\ Requested = years
              /\ Sum([k \in DOMAIN Posts |-> Len(Slice(k))]) = Len(years)
              /\ \A y \in Range(years) :
                    Cardinality({k \in DOMAIN Posts : y \in Range(Slice(k))}) = 1

C3_Witness ==
    /\ TookChunkedPath
    /\ Returned
    /\ Len(Posts) >= 2
    /\ Len(Slice(Len(Posts))) < Len(Slice(1))

(***************************************************************************)
(* C4.  On the chunked path cells_per_year is total_cells // len(years),   *)
(* the chunk size is max(1, 100000 // cells_per_year), every chunk         *)
(* requested but the last of a finished loop has exactly that many keys    *)
(* and the last has at most that many.  With 50,000 cells per key and 10   *)
(* keys the chunk size is 2 and the fetch makes 5 requests of 2 keys.      *)
(***************************************************************************)
C4_ChunkSize ==
    TookChunkedPath =>
        LET per_unit == Cells(metadata[1]) \div Len(years)
            quotient == 100000 \div per_unit
            size == IF quotient >= 1 THEN quotient ELSE 1
        IN  /\ cells_per_year = per_unit
            /\ years_per_chunk = size
            /\ \A k \in DOMAIN Posts :
                  /\ Len(Slice(k)) <= size
                  /\ (k < Len(Posts) \/ Len(Requested) < Len(years)) => Len(Slice(k)) = size
            /\ (Returned /\ per_unit = 50000 /\ Len(years) = 10) =>
                  /\ size = 2
                  /\ Len(Posts) = 5
                  /\ \A k \in 1..5 : Slice(k) = <<years[2 * k - 1], years[2 * k]>>

C4_Witness ==
    /\ TookChunkedPath
    /\ Returned
    /\ cells_per_year = 50000
    /\ Len(years) = 10
    /\ Len(Posts) = 5

(***************************************************************************)
(* C5.  As claimed: every chunk request asks for at most 100,000 cells,    *)
(* slice size times cells per key.                                         *)
(***************************************************************************)
C5_EveryChunkWithinQuota ==
    TookChunkedPath =>
        \A k \in DOMAIN Posts :
            Len(Slice(k)) * (Cells(metadata[1]) \div Len(years)) <= 100000

(***************************************************************************)
(* C5, amended.  When one key has at most 100,000 cells every chunk        *)
(* request asks for at most 100,000 cells; when one key has more, every    *)
(* chunk request asks for exactly one key, and so for more than 100,000    *)
(* cells.                                                                  *)
(***************************************************************************)
C5_WithinQuotaOrSingleKey ==
    TookChunkedPath =>
        LET per_unit == Cells(metadata[1]) \div Len(years)
        IN  \A k \in DOMAIN Posts :
                IF per_unit <= 100000
                THEN Len(Slice(k)) * per_unit <= 100000
                ELSE Len(Slice(k)) = 1

C5_Witness ==
    /\ TookChunkedPath
    /\ Returned
    /\ \E k \in DOMAIN Posts : Len(Slice(k)) * cells_per_year = 100000
    /\ \E k \in DOMAIN Posts : Len(Slice(k)) * cells_per_year < 100000

(***************************************************************************)
(* C6.  A table over the quota none of whose variables is time-flagged or  *)
(* has "year" in its code: the fetch ends in the ValueError of the         *)
(* planning step, no data request has been made, the fetch has saved       *)
(* nothing and the table is not in the persisted checkpoint.               *)
(***************************************************************************)
C6_NoSplitVariable ==
    (/\ Planned
     /\ Cells(metadata[1]) > 100000
     /\ \A j \in DOMAIN metadata[1].variables :
            ~TimeFlagged(metadata[1].variables[j]) /\ ~YearCoded(metadata[1].variables[j]))
    =>  /\ pc = "failed"
        /\ error = Some("ValueError")
        /\ Posts = <<>>
        /\ trace = <<Get, Sleep>>
        /\ saved = None
        /\ name \notin state
        /\ name \notin completed

C6_Witness ==
    /\ Planned
    /\ error = Some("ValueError")
    /\ \E j \in DOMAIN metadata[1].variables :
          /\ "time" \in DOMAIN metadata[1].variables[j]
          /\ metadata[1].variables[j].code = <<"P","e","r">>
    /\ name = "electricity_by_region"
    /\ state = {"electricity_by_country"}

(***************************************************************************)
(* C7.  The provider answers every chunk request with the selection asked  *)
(* for, and no variable declared before the split variable has more than   *)
(* one key: the dataset saved by the chunked path is the dataset the       *)
(* provider returns for the empty query -- the same values in the same     *)
(* order, id, size, and index and label maps of the split variable.        *)
(***************************************************************************)
Outermost ==
    \A j \in 1..year_idx[1] : Len(metadata[1].variables[j].values) = 1

AnsweredFaithfully ==
    /\ Len(replies) = Len(Posts)
    /\ \A k \in DOMAIN Posts : replies[k] = Faithful(metadata[1], Posts[k].query)

C7_ChunkedEqualsUnchunked ==
    (TookChunkedPath /\ Returned /\ Outermost /\ AnsweredFaithfully) =>
        LET whole == Faithful(metadata[1], <<>>)
            got == saved[1]
        IN  /\ got.value = whole.value
            /\ got.id = whole.id
            /\ got.size = whole.size
            /\ got.dimension[year_code].category.index = whole.dimension[year_code].category.index
            /\ got.dimension[year_code].category.label = whole.dimension[year_code].category.label
            /\ got = whole

C7_Witness ==
    /\ TookChunkedPath /\ Returned /\ Outermost /\ AnsweredFaithfully
    /\ year_idx = Some(1)
    /\ Len(Posts) = 2
    /\ Len(Slice(1)) = 5

(***************************************************************************)
(* C8.  The value list saved by the chunked path is the value lists of the *)
(* chunk responses one after the other in request order, its length -- the *)
(* count the fetch returns -- is the sum of their lengths, and when every  *)
(* response has slice size times cells_per_year values that length is      *)
(* total_cells, the length of the answer to the empty query.               *)
(***************************************************************************)
ReplyValues == [k \in DOMAIN replies |-> replies[k].value]
ReplyLengths == [k \in DOMAIN replies |-> ValLen(replies[k].value)]

C8_MergedValueIsConcatenation ==
    (TookChunkedPath /\ Returned) =>
        /\ Len(replies) = Len(Posts)
        /\ saved[1].value = Norm(Flatten(ReplyValues))
        /\ ValLen(saved[1].value) = Sum(ReplyLengths)
        /\ count = Sum(ReplyLengths)
        /\ (\A k \in DOMAIN replies : ReplyLengths[k] = Len(Slice(k)) * cells_per_year) =>
              /\ ValLen(saved[1].value) = Cells(metadata[1])
              /\ ValLen(saved[1].value) = ValLen(Faithful(metadata[1], <<>>).value)

C8_Witness ==
    /\ TookChunkedPath /\ Returned
    /\ Len(replies) = 3
    /\ \A k \in DOMAIN replies : ReplyLengths[k] = Len(Slice(k)) * cells_per_year
    /\ ReplyLengths = <<100000, 100000, 50000>>
    /\ count = 250000
    /\ ~AnsweredFaithfully

(***************************************************************************)
(* C9.  Every chunk response lists the dimensions in metadata order and is *)
(* well-formed for its slice (the slice's size at the split variable, the  *)
(* full cardinality elsewhere, as many values as the product of its sizes, *)
(* as many index entries per dimension as its size): the dataset saved     *)
(* after the merge has as many values as the product of its sizes, the     *)
(* full cardinality of the split variable at its position, and for every   *)
(* dimension of id an index map of exactly size[position] entries.         *)
(***************************************************************************)
IndexEntries(d, p) == Cardinality(DOMAIN d.dimension[d.id[p]].category.index)

WellFormedChunk(k) ==
    LET r == replies[k]
        m == metadata[1]
    IN  /\ "value" \in DOMAIN r
        /\ r.id = Codes(m)
        /\ r.size = [j \in DOMAIN m.variables |->
                        IF j = year_idx[1] + 1 THEN Len(Slice(k)) ELSE Cards(m)[j]]
        /\ ValLen(r.value) = Product(r.size)
        /\ \A p \in DOMAIN r.id : IndexEntries(r, p) = r.size[p]

C9_MergedDatasetInvariant ==
    (/\ TookChunkedPath /\ Returned
     /\ Len(replies) = Len(Posts)
     /\ \A k \in DOMAIN replies : WellFormedChunk(k))
    =>  LET d == saved[1]
        IN  /\ ValLen(d.value) = Product(d.size)
            /\ d.size[year_idx[1] + 1] = Len(years)
            /\ Len(d.size) = Len(d.id)
            /\ \A p \in DOMAIN d.id : IndexEntries(d, p) = d.size[p]

C9_Witness ==
    /\ TookChunkedPath /\ Returned
    /\ Len(replies) = 2
    /\ \A k \in DOMAIN replies : WellFormedChunk(k)
    /\ replies[1].size[year_idx[1] + 1] = 5
    /\ replies[2].size[year_idx[1] + 1] = 2
    /\ saved[1].size[year_idx[1] + 1] = 7

(***************************************************************************)
(* C10.  As claimed: after a chunked merge the index map of the split      *)
(* variable's dimension sends the key at metadata position p to p, and so  *)
(* is a bijection from the keys onto 0..N-1, whatever the chunk responses  *)
(* held.                                                                   *)
(***************************************************************************)
SplitIndexRebuilt ==
    LET index == saved[1].dimension[year_code].category.index
    IN  /\ DOMAIN index = Range(years)
        /\ \A p \in DOMAIN years : index[years[p]] = p - 1
        /\ {index[k] : k \in DOMAIN index} = 0..(Len(years) - 1)
        /\ \A k1, k2 \in DOMAIN index : index[k1] = index[k2] => k1 = k2

C10_IndexRebuiltWhateverContent ==
    (TookChunkedPath /\ Returned) => SplitIndexRebuilt

(***************************************************************************)
(* C10, amended.  The same, provided the first chunk response lists the    *)
(* split variable's code in id at the split variable's metadata position:  *)
(* the map rebuilt is the one of dimension id[year_idx] of that response.  *)
(* Index maps, values and slices of the responses do not matter.           *)
(***************************************************************************)
C10_IndexRebuilt ==
    (/\ TookChunkedPath /\ Returned
     /\ replies[1].id[year_idx[1] + 1] = year_code)
    => SplitIndexRebuilt

C10_Witness ==
    /\ TookChunkedPath /\ Returned
    /\ replies[1].id[year_idx[1] + 1] = year_code
    /\ Len(replies) >= 2
    /\ LET carried == replies[1].dimension[year_code].category.index
       IN  \E k \in DOMAIN carried : carried[k] # PosOf(years, k) - 1
    /\ SplitIndexRebuilt

(***************************************************************************)
(* C11.  As claimed: a failure while a table is fetched ends that table    *)
(* only.  When a failure has been raised, the tables completed earlier in  *)
(* the run are in the persisted checkpoint, and the run goes on to the     *)
(* tables behind the failed one: it is over only when none is left.        *)
(***************************************************************************)
RunOver == pc \in {"exit", "failed", "killed"}

C11_FailureIsTableScoped ==
    error # None =>
        /\ completed \subseteq state
        /\ RunOver => pending = <<>>

(***************************************************************************)
(* C12.  Wherever the process stands -- and so wherever it is stopped, by  *)
(* an exception or by being killed -- the tables this run has completed    *)
(* are in the persisted checkpoint, no table still to be attempted is in   *)
(* it, and while a table is in progress (from before its first request to  *)
(* its checkpoint write) every table before it in iteration order is in    *)
(* the persisted checkpoint and the table itself is not.  A run therefore  *)
(* takes up exactly the tables that were not completed.  A table counts as *)
(* completed once run() has added it to `completed` and saved the state.   *)
(***************************************************************************)
InProgress == pc \in {"get", "cells", "single", "chunk", "mark"}

TablePos(t) == CHOOSE k \in DOMAIN TABLES : TABLES[k] = t

C12_CheckpointPersistedPerTable ==
    /\ completed \subseteq state
    /\ \A k \in DOMAIN pending : pending[k] \notin state
    /\ InProgress =>
          /\ name \notin state
          /\ \A t \in Range(TABLES) : TablePos(t) < TablePos(name) => t \in state
          /\ \A k \in DOMAIN pending : TablePos(name) < TablePos(pending[k])
    /\ (InProgress \/ pc = "loop") =>
          /\ completed = state
          /\ Range(TABLES) = state \cup Range(pending) \cup (IF InProgress THEN {name} ELSE {})

\* A second run takes up the third table, whose dataset a killed first run had
\* saved without reaching the checkpoint write.
C12_Witness ==
    /\ runs = 2
    /\ pc = "get"
    /\ name = "renewable_share"
    /\ state = {"electricity_by_country", "electricity_by_region"}
    /\ "renewable_share" \in raw

(***************************************************************************)
(* C13.  Once the persisted checkpoint holds every table of TABLES, no     *)
(* step issues a request or writes the checkpoint: a run started then      *)
(* finds nothing pending and returns at once, without entering the loop.   *)
(***************************************************************************)
AllCompleted == Range(TABLES) \subseteq state

Starts == runs' = runs + 1

C13_NothingPendingStep ==
    AllCompleted =>
        /\ state' = state
        /\ raw' = raw
        /\ trace' \in {trace, <<>>}
        /\ ~InProgress'
        /\ Starts => pc' = "exit" /\ pending' = <<>> /\ trace' = <<>>

C13_RerunIsIdle == [][C13_NothingPendingStep]_vars

\* The second run, started on a checkpoint holding all five tables, has returned.
C13_Witness ==
    /\ runs = 2
    /\ pc = "exit"
    /\ name = ""
    /\ trace = <<>>
    /\ state = Range(TABLES)
    /\ raw = Range(TABLES)

(***************************************************************************)
(* C14.  The persisted completed set only grows, within a run and from one *)
(* run to the next: no step removes a name from it, and each checkpoint    *)
(* write stores the previous set plus exactly one name that was not in it, *)
(* the name of the table just fetched.                                     *)
(***************************************************************************)
Writes == pc = "mark" /\ pc' = "loop"

C14_GrowsByOneStep ==
    /\ state \subseteq state'
    /\ state' # state => Writes
    /\ Writes =>
          /\ name \notin state
          /\ state' = state \cup {name}
          /\ Cardinality(state') = Cardinality(state) + 1

C14_CheckpointGrowsByOne == [][C14_GrowsByOneStep]_vars

\* The second run has added the third table to the two names it loaded.
C14_Witness ==
    /\ runs = 2
    /\ pc = "loop"
    /\ name = "renewable_share"
    /\ state = {"electricity_by_country", "electricity_by_region", "renewable_share"}

(***************************************************************************)
(* C15.  Every name in the persisted checkpoint is the name of a table     *)
(* whose dataset has been saved.  The checkpoint changes only in the step  *)
(* that follows a returned fetch, and at that step the dataset of the      *)
(* table has been saved and is complete: on the single-request path it is  *)
(* the response to the one request with the empty query, on the chunked    *)
(* path every key of the split variable has been requested, every request  *)
(* answered, and the saved value list is the answers one after the other.  *)
(***************************************************************************)
CompleteDataset ==
    /\ saved # None
    /\ name \in raw
    /\ Len(replies) = Len(Posts)
    /\ year_idx = None =>
          /\ Len(Posts) = 1
          /\ Posts[1].query = <<>>
          /\ saved = Some(replies[1])
    /\ year_idx # None =>
          /\ Requested = years
          /\ saved[1].value = Norm(Flatten(ReplyValues))

C15_SavedBeforeCheckpointStep ==
    /\ state' \subseteq raw'
    /\ state' # state => Writes /\ state' \ state = {name}
    /\ Writes => CompleteDataset

C15_SavedBeforeCheckpoint == [][C15_SavedBeforeCheckpointStep]_vars

\* A table fetched in three chunks has been saved and then checkpointed.
C15_Witness ==
    /\ pc = "loop"
    /\ name \in state
    /\ year_idx # None
    /\ Len(Posts) = 3
    /\ CompleteDataset

(***************************************************************************)
(* C16.  Within a run, every request that is followed by anything is       *)
(* followed by the 1.1-second sleep, and whenever the run can go on to     *)
(* another request -- the next chunk, or the metadata request of the next  *)
(* table -- the last request is at least 1.1 seconds old.  Requests of one *)
(* run are therefore at least 1.1 seconds apart, and at most 10 of them    *)
(* are ever within 10 seconds of each other.                               *)
(***************************************************************************)
IsRequest(e) == e.op \in {"GET", "POST"}

C16_PacedRequests ==
    /\ \A k \in 1..(Len(trace) - 1) : IsRequest(trace[k]) => trace[k + 1] = Sleep
    /\ ((InProgress \/ pc = "loop") /\ trace # <<>>) => trace[Len(trace)] = Sleep
    /\ stamps # Unobserved =>
          /\ Len(stamps) <= MaxPerWindow
          /\ \A k \in 1..(Len(stamps) - 1) : stamps[k] - stamps[k + 1] >= SleepTenths
          /\ ((InProgress \/ pc = "loop") /\ stamps # <<>>) =>
                stamps[Len(stamps)] >= SleepTenths

\* Ten requests within ten seconds, the last one just issued (and failed), the
\* first ones made for an earlier table of the run.
C16_Witness ==
    /\ stamps # Unobserved
    /\ Len(stamps) = MaxPerWindow
    /\ stamps[1] = 99
    /\ stamps[MaxPerWindow] = 0
    /\ Len(Posts) + Len(Gets) < MaxPerWindow
    /\ state # {}

(***************************************************************************)
(* C17.  On the chunked path the k-th request's query is one filter: it    *)
(* names the split variable's code and lists, in metadata order, the keys  *)
(* of the k-th slice and nothing else.  The keys requested so far are a    *)
(* prefix of the split variable's keys.  Whenever the loop stands before   *)
(* its next request, every request issued has been answered and folded:    *)
(* the accumulator is the answers so far one after the other, the base is  *)
(* the first answer, and the loop index is the number of keys requested.   *)
(* A request that fails is the last one issued.                            *)
(***************************************************************************)
KthQuery(k) ==
    << [code |-> metadata[1].variables[year_idx[1] + 1].code,
        selection |-> [filter |-> "item",
                       values |-> SubSeq(years, (k - 1) * years_per_chunk + 1,
                                         Min(k * years_per_chunk, Len(years)))]] >>

C17_ChunkRequestsInOrder ==
    TookChunkedPath =>
        /\ \A k \in DOMAIN Posts : Posts[k].query = KthQuery(k)
        /\ Requested = SubSeq(years, 1, Len(Requested))
        /\ pc \in {"chunk", "mark", "loop"} =>
              /\ Len(replies) = Len(Posts)
              /\ all_values = Norm(Flatten(ReplyValues))
              /\ base_response = IF replies = <<>> THEN None ELSE Some(replies[1])
              /\ i = Len(Posts) * years_per_chunk
              /\ Len(Requested) = Min(i, Len(years))
        /\ pc = "failed" => Len(Posts) - Len(replies) \in {0, 1}

\* Between the second and the third request of a table split in three.
C17_Witness ==
    /\ TookChunkedPath
    /\ pc = "chunk"
    /\ Len(Posts) = 2
    /\ i < Len(years)
    /\ years_per_chunk > 1
    /\ year_idx # Some(0)
    /\ all_values = ValCat(replies[1].value, replies[2].value)

(***************************************************************************)
(* C18.  The step in which a chunk request fails saves no dataset and      *)
(* leaves the saved names and the checkpoint as they were, the table not   *)
(* in it.  The run that follows takes that table up first, with an empty   *)
(* accumulator, no base response, the loop index at 0 and no metadata: it  *)
(* starts the table again from its metadata request.                       *)
(***************************************************************************)
ChunkFailed == pc = "failed" /\ year_idx # None

C18_ChunkFailureStep ==
    /\ (pc = "chunk" /\ pc' = "failed") =>
          /\ ChunkFailed'
          /\ saved' = None
          /\ raw' = raw
          /\ state' = state
          /\ name' \notin state' \cup completed'
    /\ (ChunkFailed /\ Starts) =>
          /\ pc' = "loop"
          /\ pending' # <<>> /\ Head(pending') = name
          /\ all_values' = <<>>
          /\ base_response' = None
          /\ i' = 0
          /\ metadata' = None
          /\ saved' = None
          /\ trace' = <<>>

C18_ChunkFailureDiscardsTable == [][C18_ChunkFailureStep]_vars

\* The third chunk request has failed with two chunks accumulated, and another
\* run can follow.
C18_Witness ==
    /\ ChunkFailed
    /\ error = Some("DataRequest")
    /\ Len(Posts) = 3
    /\ Len(replies) = 2
    /\ all_values # <<>>
    /\ saved = None
    /\ name \notin state
    /\ runs < MaxRuns

(***************************************************************************)
(* C19.  The requests of a table fetch begin with the metadata GET and     *)
(* hold no other GET: one per attempted table, before every POST, never    *)
(* repeated.  When that request raises, or its response has no             *)
(* `variables`, the fetch has failed once it is past the cell count: no    *)
(* POST has been issued for the table, no dataset saved, and the table is  *)
(* in neither the in-memory nor the persisted completed set.               *)
(***************************************************************************)
MetadataFailed ==
    \/ error = Some("MetadataRequest")
    \/ metadata # None /\ ~Known /\ pc # "cells"

C19_OneMetadataRequest ==
    /\ Len(Gets) <= 1
    /\ trace # <<>> => trace[1] = Get
    /\ pc \in {"cells", "single", "chunk", "mark"} => Len(Gets) = 1
    /\ MetadataFailed =>
          /\ pc = "failed"
          /\ Len(Gets) = 1
          /\ Posts = <<>>
          /\ replies = <<>>
          /\ saved = None
          /\ name \notin state \cup completed

\* The metadata of the second table came without `variables`.
C19_Witness ==
    /\ MetadataFailed
    /\ error = Some("KeyError")
    /\ metadata = Some(NoVariables)
    /\ trace = <<Get, Sleep>>
    /\ name = "electricity_by_region"
    /\ state = {"electricity_by_country"}

(***************************************************************************)
(* C20.  When one key of the split variable alone holds more cells than    *)
(* MAX_CELLS, the chunk size is 1 and the k-th request asks for the k-th   *)
(* key alone.  The client raises no error of its own for it: a fetch that  *)
(* fails has failed on the provider's answer.  A fetch that returns has    *)
(* issued one request for every key and saved the merged dataset, and the  *)
(* table is then checkpointed as any other.                                *)
(***************************************************************************)
Oversized == TookChunkedPath /\ cells_per_year > MAX_CELLS

C20_OversizedUnitFetchedWhole ==
    Oversized =>
        /\ years_per_chunk = 1
        /\ \A k \in DOMAIN Posts : Slice(k) = <<years[k]>>
        /\ error \in {None, Some("DataRequest"), Some("KeyError")}
        /\ pc = "failed" => Len(Posts) >= 1
        /\ Returned =>
              /\ Len(Posts) = Len(years)
              /\ Requested = years
              /\ CompleteDataset
        /\ pc = "loop" => name \in state

\* Two keys of 200,000 cells each: two requests, saved and checkpointed.
C20_Witness ==
    /\ Oversized
    /\ cells_per_year = 200000
    /\ Len(years) = 2
    /\ Len(Posts) = 2
    /\ pc = "loop"
    /\ name \in state
    /\ ValLen(saved[1].value) = 400000

(***************************************************************************)
(* C21.  A variable declared before the split variable has more than one   *)
(* key, the table took at least two chunk requests and the provider        *)
(* answered each with the selection asked for: the fetch returns without   *)
(* error and the table is checkpointed, the saved dataset has the id, the  *)
(* size and the number of values of the full cube, and its value list is   *)
(* not the full cube's row-major value list.  (Cells are told apart by     *)
(* their position in the cube, not by the numbers they hold.)              *)
(***************************************************************************)
SplitInside == TookChunkedPath /\ ~Outermost

C21_InnerSplitMisordered ==
    (SplitInside /\ Returned /\ Len(Posts) >= 2 /\ AnsweredFaithfully) =>
        LET whole == Faithful(metadata[1], <<>>)
            got == saved[1]
        IN  /\ error = None
            /\ name \in raw
            /\ pc = "loop" => name \in state
            /\ got.id = whole.id
            /\ got.size = whole.size
            /\ ValLen(got.value) = ValLen(whole.value)
            /\ got.value # whole.value

\* Four keys before a split variable of five keys fetched in three chunks.
C21_Witness ==
    /\ SplitInside /\ Returned /\ AnsweredFaithfully
    /\ pc = "loop"
    /\ name \in state
    /\ year_idx = Some(1)
    /\ Len(metadata[1].variables[1].values) = 4
    /\ Len(Posts) = 3
    /\ saved[1].value # Faithful(metadata[1], <<>>).value

(***************************************************************************)
(* C22.  A chunked fetch of n split keys in chunks of c never holds more   *)
(* than ceil(n / c) POSTs and has issued exactly that many when the loop   *)
(* is exhausted; an unchunked fetch that returns has issued one.  Either   *)
(* has issued one GET.  Every step of a run that does not end it lowers    *)
(* the triple (tables still pending, statements left in the fetch, split   *)
(* keys left to request) in lexicographic order, so a run whose requests   *)
(* all return ends after finitely many of them.                            *)
(***************************************************************************)
CeilDiv(n, c) == (n + c - 1) \div c

InRun == InProgress \/ pc = "loop"

C22_RequestCount ==
    /\ TookChunkedPath =>
          /\ years_per_chunk >= 1
          /\ Len(Posts) <= CeilDiv(Len(years), years_per_chunk)
          /\ Returned => Len(Posts) = CeilDiv(Len(years), years_per_chunk)
          /\ (pc = "chunk" /\ i >= Len(years)) =>
                Len(Posts) = CeilDiv(Len(years), years_per_chunk)
    /\ (Planned /\ year_idx = None) =>
          /\ Len(Posts) <= 1
          /\ Returned => Len(Posts) = 1
    /\ Returned => Len(Gets) = 1

StatementsLeft ==
    CASE pc = "get" -> 5
      [] pc = "cells" -> 4
      [] pc \in {"single", "chunk"} -> 3
      [] pc = "mark" -> 2
      [] pc = "loop" -> 1
      [] OTHER -> 0

KeysLeft == IF pc = "chunk" THEN Max(0, Len(years) - i) ELSE 0

C22_Decreases ==
    (InRun /\ InRun') =>
        \/ Len(pending') < Len(pending)
        \/ /\ pending' = pending
           /\ StatementsLeft' < StatementsLeft
        \/ /\ pending' = pending
           /\ StatementsLeft' = StatementsLeft
           /\ KeysLeft' < KeysLeft

C22_ChunkLoopTerminates == [][C22_RequestCount' /\ C22_Decreases]_vars

\* Seven keys in chunks of five: two POSTs, and the run went on.
C22_Witness ==
    /\ TookChunkedPath /\ Returned
    /\ Len(years) = 7
    /\ years_per_chunk = 5
    /\ Len(Posts) = 2
    /\ pc = "loop"

(***************************************************************************)
(* C23.  When the cell count is over MAX_CELLS every variable has at least *)
(* one key.  On the chunked path the split variable has at least one key,  *)
(* its number of keys divides total_cells exactly, and cells_per_year is   *)
(* the product of the other variables' numbers of keys and at least 1, so  *)
(* neither division has a zero divisor.  A variable without keys makes     *)
(* total_cells 0 and the fetch takes the single-request path.              *)
(***************************************************************************)
OtherCards(m, p) == [j \in DOMAIN Cards(m) \ {p} |-> Cards(m)[j]]

RECURSIVE ProductOver(_, _)
ProductOver(f, S) ==
    IF S = {} THEN 1
    ELSE LET j == CHOOSE x \in S : TRUE IN f[j] * ProductOver(f, S \ {j})

HasEmptyVariable(m) == \E j \in DOMAIN m.variables : m.variables[j].values = <<>>

C23_NoZeroDivisor ==
    Planned =>
        /\ total_cells = Product(Cards(metadata[1]))
        /\ total_cells > MAX_CELLS => ~HasEmptyVariable(metadata[1])
        /\ TookChunkedPath =>
              /\ total_cells > MAX_CELLS
              /\ Len(years) >= 1
              /\ total_cells % Len(years) = 0
              /\ cells_per_year * Len(years) = total_cells
              /\ cells_per_year =
                    ProductOver(OtherCards(metadata[1], year_idx[1] + 1),
                                DOMAIN Cards(metadata[1]) \ {year_idx[1] + 1})
              /\ cells_per_year >= 1
              /\ years_per_chunk = Max(1, MAX_CELLS \div cells_per_year)
        /\ HasEmptyVariable(metadata[1]) =>
              /\ total_cells = 0
              /\ ~TookChunkedPath
              /\ pc # "chunk"
              /\ \A k \in DOMAIN Posts : Posts[k].query = SingleQuery
              /\ error \in {None, Some("DataRequest")}

\* A split variable inside the cube, on the chunked path; cells_per_year is the
\* product of the keys before and after it.
C23_Witness ==
    /\ TookChunkedPath
    /\ year_idx = Some(1)
    /\ Len(years) = 5
    /\ total_cells = 200000
    /\ cells_per_year = 40000
    /\ years_per_chunk = 2

\* A table with a variable without keys has been fetched by the single request.
C23_EmptyVariableReached ==
    /\ Planned
    /\ HasEmptyVariable(metadata[1])
    /\ Returned
    /\ Len(Posts) = 1

(***************************************************************************)
(* The second implementation: nodes/ingest.py, fetch_irena_table and       *)
(* ingest_irena, written out from its own text.  A table fetch is given as *)
(* a function of what the provider sent: the decoded metadata (None when   *)
(* the GET raised) and the decoded data responses in order (a request      *)
(* beyond the last of them raises).  Its result is what can be observed of *)
(* it: the requests and sleeps, the dataset saved, the exception raised    *)
(* and the count returned.                                                 *)
(***************************************************************************)
nodes_MAX_CELLS == 100000

IRENA_TABLES ==
    <<"electricity_by_country", "electricity_by_region", "renewable_share",
      "public_investments", "heat_generation">>

\* load_state("irenastat") ... save_state("irenastat", ...)
nodes_JobKey == "irenastat"

\* nodes/ingest.py calculate_total_cells
RECURSIVE nodes_calculate_total_cells(_, _)
nodes_calculate_total_cells(variables, total) ==
    IF variables = <<>> THEN total
    ELSE nodes_calculate_total_cells(Tail(variables), total * Len(Head(variables).values))

\* for idx, var in enumerate(metadata["variables"]): if ...: break
RECURSIVE nodes_FindYearVar(_, _)
nodes_FindYearVar(variables, idx) ==
    IF idx >= Len(variables) THEN None
    ELSE LET var == variables[idx + 1] IN
         IF \/ ("time" \in DOMAIN var /\ var.time)
            \/ Contains(<<"y","e","a","r">>, Lower(var.code))
         THEN Some(idx)
         ELSE nodes_FindYearVar(variables, idx + 1)

\* The chunk query with the filter kind "all".
nodes_Query_FilterAll(year_code_, chunk_years) ==
    << [code |-> year_code_, selection |-> [filter |-> "all", values |-> chunk_years]] >>

\* {"query": [{"code": year_code, "selection": {"filter": "item", "values": chunk_years}}], ...}
nodes_Query(year_code_, chunk_years) ==
    << [code |-> year_code_, selection |-> [filter |-> "item", values |-> chunk_years]] >>

\* The statements after the loop.
nodes_Merge(base, values, idx, ys, labels) ==
    LET dim == base.id[idx + 1]
        n == Min(Len(ys), Len(labels))
        last(k, m) == CHOOSE p \in 1..m : ys[p] = k /\ \A q \in 1..m : q > p => ys[q] # k
    IN  [base EXCEPT
           !.value = values,
           !.size[idx + 1] = Len(ys),
           !.dimension[dim].category.index = [k \in Range(ys) |-> last(k, Len(ys)) - 1],
           !.dimension[dim].category.label =
               [k \in {ys[p] : p \in 1..n} |-> labels[last(k, n)]]]

Outcome(t, s, e, c) == [trace |-> t, saved |-> s, error |-> e, count |-> c]

\* for i in range(0, len(years), years_per_chunk): ... ; then the merge and the save.
RECURSIVE nodes_ChunkLoop(_, _, _, _)
nodes_ChunkLoop(l, at, events, answers) ==
    IF at >= Len(l.years)
    THEN Outcome(events,
                 Some(nodes_Merge(l.base[1], l.all_values, l.year_idx, l.years, l.year_labels)),
                 None, ValLen(l.all_values))
    ELSE LET chunk_years == SubSeq(l.years, at + 1, Min(at + l.years_per_chunk, Len(l.years)))
             request == Post(nodes_Query(l.year_code, chunk_years))
         IN  IF answers = <<>>
             THEN Outcome(Append(events, request), None, Some("DataRequest"), 0)
             ELSE IF "value" \notin DOMAIN Head(answers)
             THEN Outcome(Append(events, request), None, Some("KeyError"), 0)
             ELSE nodes_ChunkLoop(
                      [l EXCEPT !.base = IF l.base = None THEN Some(Head(answers)) ELSE l.base,
                                !.all_values = IF l.base = None THEN Head(answers).value
                                               ELSE ValCat(l.all_values, Head(answers).value)],
                      at + l.years_per_chunk,
                      events \o <<request, Sleep>>,
                      Tail(answers))

fetch_irena_table(meta, answers) ==
    IF meta = None THEN Outcome(<<Get>>, None, Some("MetadataRequest"), 0)
    ELSE IF "variables" \notin DOMAIN meta[1]
    THEN Outcome(<<Get, Sleep>>, None, Some("KeyError"), 0)
    ELSE LET variables == meta[1].variables
             total == nodes_calculate_total_cells(variables, 1)
             found == nodes_FindYearVar(variables, 0)
         IN  IF total <= nodes_MAX_CELLS
             THEN IF answers = <<>>
                  THEN Outcome(<<Get, Sleep, Post(<<>>)>>, None, Some("DataRequest"), 0)
                  ELSE Outcome(<<Get, Sleep, Post(<<>>), Sleep>>, Some(answers[1]), None,
                               IF "value" \in DOMAIN answers[1]
                               THEN ValLen(answers[1].value) ELSE 0)
             ELSE IF found = None
             THEN Outcome(<<Get, Sleep>>, None, Some("ValueError"), 0)
             ELSE LET year_var == variables[found[1] + 1]
                      per_year == total \div Len(year_var.values)
                  IN  nodes_ChunkLoop(
                          [year_idx |-> found[1],
                           years |-> year_var.values,
                           year_code |-> year_var.code,
                           year_labels |-> IF "valueTexts" \in DOMAIN year_var
                                           THEN year_var.valueTexts ELSE year_var.values,
                           years_per_chunk |-> Max(1, nodes_MAX_CELLS \div per_year),
                           base |-> None,
                           all_values |-> <<>>],
                          0, <<Get, Sleep>>, answers)

\* ingest_irena: pending = [... for name, path in IRENA_TABLES.items() if name not in completed]
ingest_irena_pending(loaded) == SelectSeq(IRENA_TABLES, LAMBDA t : t \notin loaded)

\* completed.add(name); save_state("irenastat", {"completed": list(completed)})
ingest_irena_checkpoint(done, table) == done \cup {table}

\* load_state("irenastat") ... save_state("irenastat", ...) in run()
JobKey == "irenastat"

(***************************************************************************)
(* C24.  Given the checkpoint the first implementation loaded and the      *)
(* responses it received, the second implementation does what the first    *)
(* has done: a run takes up the same tables in the same order, and at      *)
(* every point of a table fetch the requests (with their queries) and      *)
(* sleeps of the first are the beginning of those of the second; a fetch   *)
(* that has returned or failed has the same requests and sleeps, the same  *)
(* saved dataset, the same exception and the same count; and the           *)
(* checkpoint written is the same set under the same key.                  *)
(***************************************************************************)
FetchAgrees ==
    LET other == fetch_irena_table(metadata, replies) IN
    /\ (InProgress /\ pc # "get") =>
          /\ Len(trace) <= Len(other.trace)
          /\ trace = SubSeq(other.trace, 1, Len(trace))
    /\ (Returned \/ pc = "failed") =>
          /\ other.trace = trace
          /\ other.saved = saved
          /\ other.error = error
    /\ Returned => other.count = count

RunAgrees ==
    /\ JobKey = nodes_JobKey
    /\ Starts =>
          /\ completed' = state
          /\ pending' = ingest_irena_pending(state)
          /\ (pc' = "exit") <=> (ingest_irena_pending(state) = <<>>)
    /\ (pc = "loop" /\ pc' = "get") => name' = Head(pending) /\ pending' = Tail(pending)
    /\ Writes =>
          /\ completed' = ingest_irena_checkpoint(completed, name)
          /\ state' = ingest_irena_checkpoint(completed, name)

C24_ImplementationsAgree == []FetchAgrees /\ [][RunAgrees]_vars

\* A chunked fetch of three requests has returned in a second run and both
\* implementations saved the same merged dataset.
C24_Witness ==
    /\ runs = 2
    /\ TookChunkedPath /\ Returned
    /\ Len(Posts) = 3
    /\ pc = "loop"
    /\ fetch_irena_table(metadata, replies).saved = saved
    /\ fetch_irena_table(metadata, replies).trace = trace
    /\ state # {name}

(***************************************************************************)
(* C25.  In each JODI ingest the years requested in a run are years of     *)
(* 2002..2025, in ascending order, none of them in that ingest's           *)
(* checkpoint when requested, and what is pending is always the ascending  *)
(* list of the years not in the checkpoint.  A year enters the persisted   *)
(* checkpoint only in the step after its CSV file was saved.  When a       *)
(* download fails the run is over, every year before the failed one is in  *)
(* the checkpoint and the failed one is not, so the next run takes up the  *)
(* failed year first.  The two ingests have different keys, and a step of  *)
(* one never changes what is stored under the key of the other.            *)
(***************************************************************************)
YearPos(y) == CHOOSE k \in DOMAIN JodiYears : JodiYears[k] = y

JodiJobOf(key) == IF key = "jodi_oil" THEN "primary" ELSE "secondary"

JodiAscending(j) ==
    \A a, b \in DOMAIN j.requested :
        a < b =>
            /\ j.requested[a][1] = "secondary" => j.requested[b][1] = "secondary"
            /\ j.requested[a][1] = j.requested[b][1] =>
                  YearPos(j.requested[a][2]) < YearPos(j.requested[b][2])

JodiState(j) ==
    /\ JodiAscending(j)
    /\ \A a \in DOMAIN j.requested : j.requested[a][2] \in Range(JodiYears)
    /\ \A key \in JodiKeys : \A y \in j.store[key] : JodiFile(JodiJobOf(key), y) \in j.files
    /\ j.pc \in {"loop", "got", "saved"} =>
          j.pending = SelectSeq(JodiYears, LAMBDA y : y \notin j.store[JodiKey(j.job)])
    /\ j.pc = "failed" =>
          /\ j.year \notin j.store[JodiKey(j.job)]
          /\ \A y \in Range(JodiYears) :
                YearPos(y) < YearPos(j.year) => y \in j.store[JodiKey(j.job)]
          /\ j.job = "secondary" => j.store["jodi_oil"] = Range(JodiYears)

C25_JodiStep ==
    /\ JodiState(jodi')
    /\ JodiKey("primary") # JodiKey("secondary")
    /\ jodi'.store # jodi.store =>
          /\ jodi.pc = "saved"
          /\ JodiFile(jodi.job, jodi.year) \in jodi.files
          /\ jodi'.store[JodiKey(jodi.job)] = jodi.store[JodiKey(jodi.job)] \cup {jodi.year}
          /\ jodi.job = "primary" => jodi'.store["jodi_oil_secondary"] = jodi.store["jodi_oil_secondary"]
          /\ jodi.job = "secondary" => jodi'.store["jodi_oil"] = jodi.store["jodi_oil"]
    /\ Len(jodi'.requested) > Len(jodi.requested) =>
          /\ jodi'.year \notin jodi.store[JodiKey(jodi.job)]
          /\ jodi'.year = Head(jodi.pending)
    /\ jodi'.pc = "failed" => jodi'.store = jodi.store /\ jodi'.files = jodi.files
    /\ jodi'.runs # jodi.runs =>
          /\ jodi'.pending = SelectSeq(JodiYears, LAMBDA y : y \notin jodi.store["jodi_oil"])
          /\ (jodi.pc = "failed" /\ jodi.job = "primary") => Head(jodi'.pending) = jodi.year

C25_JodiCheckpointing == [][C25_JodiStep]_vars

\* The first run failed on the primary file of 2010; the second run has that
\* file and nothing of the secondary ingest has been touched.
C25_Witness ==
    /\ jodi.runs = 2
    /\ jodi.job = "primary"
    /\ jodi.pc = "got"
    /\ jodi.year = Str(2010)
    /\ jodi.requested = << <<"primary", Str(2010)>> >>
    /\ Cardinality(jodi.store["jodi_oil"]) = 8
    /\ jodi.store["jodi_oil_secondary"] = {}

(***************************************************************************)
(* C26.  As claimed: every dataset whose pass of the loop is over has been *)
(* validated, then uploaded, then published, the passes follow the         *)
(* configuration order, and when a validation fails neither that dataset   *)
(* nor a later one is uploaded or published in the run while the earlier   *)
(* ones are uploaded.  The loops of nodes/transforms.py publish nothing.    *)
(***************************************************************************)
LoggedInOrder(x, d) ==
    \E a, b, c \in DOMAIN x.log :
        /\ a < b /\ b < c
        /\ x.log[a] = <<"validate", d>>
        /\ x.log[b] = <<"upload", d>>
        /\ x.log[c] = <<"publish", d>>

OrderPos(d) == CHOOSE k \in DOMAIN TransformOrder : TransformOrder[k] = d

C26_ValidateUploadPublish ==
    /\ xform.done = SubSeq(TransformOrder, 1, Len(xform.done))
    /\ \A k \in DOMAIN xform.done : LoggedInOrder(xform, xform.done[k])
    /\ xform.pc = "failed" =>
          \A d \in Range(TransformOrder) :
              IF OrderPos(d) < OrderPos(xform.dataset)
              THEN d \in xform.uploaded
              ELSE /\ <<"upload", d>> \notin Range(xform.log)
                   /\ <<"publish", d>> \notin Range(xform.log)

====
